---- MODULE Spec2Model ----
(***************************************************************************)
(* BunnyClient (octodns_bunny/__init__.py): the zone cache, the paginated  *)
(* zone listing, the record payload validation and the mapping of HTTP     *)
(* statuses to exceptions.  One action per public method of BunnyClient;   *)
(* the provider's answers (status of every response, the Id given to a new *)
(* zone, the page size of a listing) are inputs of the actions.            *)
(***************************************************************************)
EXTENDS Integers, Sequences, FiniteSets, TLC

\* ------------------------------------------------------------------ bounds
\* Number of distinct zone names the caller and the provider use.
MaxZones == 2
\* Zone Ids the provider assigns are 0..MaxId.
MaxId == 1
\* The provider answers a listing with 1..MaxPerPage items per page.
MaxPerPage == 2

AllNames == <<"a.com", "b.com", "c.com", "d.com">>
Names == {AllNames[i] : i \in 1..MaxZones}
Ids == 0..MaxId
RecordIds == {101}

\* Statuses the provider answers with: success, the two special-cased errors,
\* another error.
Statuses == {200, 401, 404, 500}

\* ------------------------------------------------------- python values
\* A python value held in a dict or a local: a str, an int or None.
PyStr(s) == [tag |-> "str", s |-> s, n |-> 0]
PyInt(n) == [tag |-> "int", s |-> "", n |-> n]
PyNone == [tag |-> "None", s |-> "", n |-> 0]

\* bool(v): None, 0 and '' are falsy.
Truthy(v) == \/ v.tag = "str" /\ v.s # ""
             \/ v.tag = "int" /\ v.n # 0

\* dicts are functions on the set of their keys
EmptyDict == <<>>
DictGet(d, k) == IF k \in DOMAIN d THEN d[k] ELSE PyNone
DictSet(d, k, v) == [x \in (DOMAIN d) \cup {k} |-> IF x = k THEN v ELSE d[x]]
\* As DictPop, but the key stays in the dict.
DictPopKept(d, k) == d

DictPop(d, k) == [x \in (DOMAIN d) \ {k} |-> d[x]]

\* ------------------------------------------------------------- RECORD_TYPES
RECORD_TYPES ==
    [t \in {"A", "AAAA", "CNAME", "TXT", "MX", "SRV", "CAA", "PTR", "NS"} |->
        CASE t = "A" -> 0
          [] t = "AAAA" -> 1
          [] t = "CNAME" -> 2
          [] t = "TXT" -> 3
          [] t = "MX" -> 4
          [] t = "SRV" -> 8
          [] t = "CAA" -> 9
          [] t = "PTR" -> 10
          [] t = "NS" -> 12]

\* RECORD_TYPES.get(raw_type): the keys are strings, anything else misses.
RecordTypesGet(raw_type) ==
    IF raw_type.tag = "str" /\ raw_type.s \in DOMAIN RECORD_TYPES
    THEN PyInt(RECORD_TYPES[raw_type.s])
    ELSE PyNone

\* ------------------------------------------------------------------ state
VARIABLES
    _zones,     \* self._zones: zone name -> zone id (ints)
    remote,     \* the provider's zones, in listing order: <<[Domain, Id], ...>>
    last,       \* the call that just returned or raised: arguments, requests sent, outcome
    prev        \* the call before it (kept by SpecOk, the specification of call sequences)

vars == <<_zones, remote, last, prev>>

RemoteNames == {remote[i].Domain : i \in 1..Len(remote)}
RemoteIds == {remote[i].Id : i \in 1..Len(remote)}

\* ------------------------------------------------------------- _request
NoId == -1

\* One HTTP exchange: what was sent and the status that came back.
Req(method, path, page, zone_id, record_id, data, status) ==
    [method |-> method, path |-> path, page |-> page, zone_id |-> zone_id,
     record_id |-> record_id, data |-> data, status |-> status]

\* _request: the exception raised for a status ("none": the response is returned).
\* raise_for_status() raises requests' HTTPError for 400..599 and nothing else.
RequestRaises(status) ==
    IF status = 401 THEN "BunnyClientUnauthorized"
    ELSE IF status = 404 THEN "BunnyClientNotFound"
    ELSE IF status >= 400 /\ status < 600 THEN "HTTPError"
    ELSE "none"

\* ----------------------------------------------------------- the provider
\* The provider's answers to the requests of one call.  A call ends at the first
\* response that is not a 200, so the answers are: 200 to every request (at = 0),
\* or 200 to the first at-1 requests and `status` to the next one.
AllOk == [at |-> 0, status |-> 200]
Answers(S, maxreq) ==
    {AllOk} \cup {[at |-> i, status |-> s] : i \in 1..maxreq, s \in S \ {200}}
StatusAt(ans, n) == IF ans.at = n THEN ans.status ELSE 200

Min(a, b) == IF a < b THEN a ELSE b

\* The answer to GET /dnszone?page=N when the provider serves per_page items a page.
ListResponse(rem, per_page, page) ==
    [Items |-> SubSeq(rem, (page - 1) * per_page + 1, Min(page * per_page, Len(rem))),
     HasMoreItems |-> page * per_page < Len(rem)]

\* ---------------------------------------------------------- _cache_zones
RECURSIVE StoreItems(_, _, _)
\* for z in r['Items']: self._zones[z['Domain']] = z['Id']
StoreItems(z, items, i) ==
    IF i > Len(items) THEN z
    ELSE StoreItems(DictSet(z, items[i].Domain, items[i].Id), items, i + 1)

\* As CacheZonesLoop, but the pass ends after one page whatever HasMoreItems says.
CacheZonesLoopOnePage(z, rem, per_page, ans, page, reqs) ==
    LET status == StatusAt(ans, page)
        reqs2 == Append(reqs, Req("GET", "/dnszone", page, NoId, NoId, EmptyDict, status))
        r == ListResponse(rem, per_page, page)
    IN  IF RequestRaises(status) # "none"
        THEN [zones |-> z, requests |-> reqs2, raised |-> RequestRaises(status)]
        ELSE [zones |-> StoreItems(z, r.Items, 1), requests |-> reqs2, raised |-> "none"]

RECURSIVE CacheZonesLoop(_, _, _, _, _, _)
\* the while loop of _cache_zones, from `page` on; page p is the p-th request of the call
CacheZonesLoop(z, rem, per_page, ans, page, reqs) ==
    LET status == StatusAt(ans, page)
        reqs2 == Append(reqs, Req("GET", "/dnszone", page, NoId, NoId, EmptyDict, status))
        exc == RequestRaises(status)
        r == ListResponse(rem, per_page, page)
        z2 == StoreItems(z, r.Items, 1)
    IN  IF exc # "none" THEN [zones |-> z, requests |-> reqs2, raised |-> exc]
        ELSE IF ~(r.HasMoreItems = TRUE)
             THEN [zones |-> z2, requests |-> reqs2, raised |-> "none"]
        ELSE CacheZonesLoop(z2, rem, per_page, ans, page + 1, reqs2)

\* As CacheZones, but a pass that completed requests the page after its last one too.
CacheZonesExtraPage(z, rem, per_page, ans) ==
    LET c == CacheZonesLoop(z, rem, per_page, ans, 1, <<>>)
        page == Len(c.requests) + 1
        rq == Req("GET", "/dnszone", page, NoId, NoId, EmptyDict, StatusAt(ans, page))
    IN  IF c.raised # "none" THEN c
        ELSE [zones |-> StoreItems(c.zones, ListResponse(rem, per_page, page).Items, 1),
              requests |-> Append(c.requests, rq),
              raised |-> RequestRaises(StatusAt(ans, page))]

CacheZones(z, rem, per_page, ans) == CacheZonesLoop(z, rem, per_page, ans, 1, <<>>)

\* As CacheIfEmpty, but every call starts from an empty dict and lists.
CacheAlways(z, rem, per_page, ans) == CacheZones(EmptyDict, rem, per_page, ans)

\* `if not self._zones: self._cache_zones()`: an empty dict is falsy
CacheIfEmpty(z, rem, per_page, ans) ==
    IF z = EmptyDict THEN CacheZones(z, rem, per_page, ans)
    ELSE [zones |-> z, requests |-> <<>>, raised |-> "none"]

\* ---------------------------------------------------------- _get_zone_id
\* As GetZoneId, but a miss is not raised: the lookup returns whatever .get() gave.
GetZoneIdNoRaise(z, zone_name, rem, per_page, ans) ==
    LET c == CacheIfEmpty(z, rem, per_page, ans)
        zone_id == IF zone_name \in DOMAIN c.zones THEN PyInt(c.zones[zone_name]) ELSE PyNone
    IN  [zones |-> c.zones, requests |-> c.requests, raised |-> c.raised,
         zone_id |-> IF c.raised # "none" THEN PyNone ELSE zone_id]

\* zone_id is self._zones.get(zone_name): the id as an int, or None
GetZoneId(z, zone_name, rem, per_page, ans) ==
    LET c == CacheIfEmpty(z, rem, per_page, ans)
        zone_id == IF zone_name \in DOMAIN c.zones THEN PyInt(c.zones[zone_name]) ELSE PyNone
    IN  IF c.raised # "none"
        THEN [zones |-> c.zones, requests |-> c.requests, raised |-> c.raised, zone_id |-> PyNone]
        ELSE IF ~Truthy(zone_id)
        THEN [zones |-> c.zones, requests |-> c.requests,
              raised |-> "BunnyClientNotFound", zone_id |-> zone_id]
        ELSE [zones |-> c.zones, requests |-> c.requests, raised |-> "none", zone_id |-> zone_id]

\* ---------------------------------------------------- _update_zones_cache
\* As UpdateZonesCache, but the cache is replaced by a dict that holds the new entry only.
UpdateZonesCacheOnly(z, zone_name, zone_id) == DictSet(EmptyDict, zone_name, zone_id)

UpdateZonesCache(z, zone_name, zone_id) == DictSet(z, zone_name, zone_id)

\* ---------------------------------------------------- _handle_record_data
\* As HandleRecordData, but the looked-up code is tested with `if not type`.
HandleRecordDataFalsyCode(record_data, update) ==
    LET raw_type == DictGet(record_data, "Type")
        type == RecordTypesGet(raw_type)
    IN  IF update
        THEN IF DictGet(record_data, "Name") # PyNone \/ raw_type # PyNone
             THEN [raised |-> "BunnyClientException", data |-> record_data]
             ELSE [raised |-> "none", data |-> DictPop(DictPop(record_data, "Name"), "Type")]
        ELSE IF ~Truthy(raw_type) \/ ~Truthy(type)
             THEN [raised |-> "BunnyClientException", data |-> record_data]
             ELSE [raised |-> "none", data |-> DictSet(record_data, "Type", type)]

\* record_data is changed in place: data is the caller's dict after the call
HandleRecordData(record_data, update) ==
    LET raw_type == DictGet(record_data, "Type")
        type == RecordTypesGet(raw_type)
    IN  IF update
        THEN IF DictGet(record_data, "Name") # PyNone
             THEN [raised |-> "BunnyClientException", data |-> record_data]
             ELSE IF raw_type # PyNone
             THEN [raised |-> "BunnyClientException", data |-> record_data]
             ELSE [raised |-> "none", data |-> DictPop(DictPop(record_data, "Name"), "Type")]
        ELSE IF ~Truthy(raw_type)
             THEN [raised |-> "BunnyClientException", data |-> record_data]
             ELSE IF type = PyNone
             THEN [raised |-> "BunnyClientException", data |-> record_data]
             ELSE [raised |-> "none", data |-> DictSet(record_data, "Type", type)]

\* ------------------------------------------------------ clear_zones_cache
\* As ClearedZones, but the dict is kept.
ClearedZonesKept(z) == z

\* self._zones = {}
ClearedZones(z) == EmptyDict

\* ------------------------------------------------------ caller's inputs
\* A record payload: a dict with a Value and, optionally, Type and Name keys.
MkPayload(keys, type, name) ==
    [k \in keys \cup {"Value"} |->
        IF k = "Type" THEN type ELSE IF k = "Name" THEN name ELSE PyStr("192.0.2.1")]

TypeStrings == (DOMAIN RECORD_TYPES) \cup {"BOGUS", ""}

\* Payloads a caller builds: every type string with a name, and every
\* presence / None / value combination of the Type and Name keys.
Payloads ==
    {MkPayload({"Type", "Name"}, PyStr(t), PyStr("www")) : t \in TypeStrings}
    \cup {MkPayload(ks, t, n) : ks \in SUBSET {"Type", "Name"},
                                t \in {PyNone, PyStr("A")}, n \in {PyNone, PyStr("www")}}

\* Two of them: one record_create accepts, one record_update accepts.
PlainPayloads ==
    {MkPayload({"Type", "Name"}, PyStr("A"), PyStr("www")), MkPayload({}, PyNone, PyNone)}

\* One payload of every supported type, and one record_update accepts.
SupportedPayloads ==
    {MkPayload({"Type", "Name"}, PyStr(t), PyStr("www")) : t \in DOMAIN RECORD_TYPES}
    \cup {MkPayload({}, PyNone, PyNone)}

\* Listings of the provider at start: distinct domains, distinct ids.  The
\* names are interchangeable, so the zones that exist at start are listed in
\* the order of AllNames; a zone created later is listed last.
ZoneRecs == [Domain : Names, Id : Ids]
NameIndex(n) == CHOOSE i \in 1..MaxZones : AllNames[i] = n
InitialRemotes ==
    {r \in UNION {[1..n -> ZoneRecs] : n \in 0..MaxZones} :
        \A i, j \in DOMAIN r :
            i < j => NameIndex(r[i].Domain) < NameIndex(r[j].Domain) /\ r[i].Id # r[j].Id}

\* Inputs of a call that may list: the page size and the answers matter only
\* while the cache is empty (a page that holds more than every zone is a page
\* that holds every zone); more is the number of requests after the lookup.
MaxPages == IF Len(remote) > 1 THEN Len(remote) ELSE 1
PerPages == IF _zones = EmptyDict THEN 1..Min(MaxPerPage, MaxPages) ELSE {1}
PagesServed(per_page) == (MaxPages + per_page - 1) \div per_page
CallAnswers(S, per_page, more) ==
    Answers(S, (IF _zones = EmptyDict THEN PagesServed(per_page) ELSE 0) + more)

\* ------------------------------------------------------------ the methods
\* The record of a call: its arguments, the cache before it, the requests it
\* sent with their answers, the exception it raised ("none": it returned),
\* the zone id it looked up, the names it returned, the caller's dict after it,
\* whether the caller passed the dict of the call before once more.
Blank ==
    [op |-> "init", zone_name |-> "", record_id |-> NoId, record_data |-> EmptyDict,
     obj |-> EmptyDict, before |-> EmptyDict, per_page |-> 0,
     requests |-> <<>>, raised |-> "none", zone_id |-> PyNone, ret |-> {},
     again |-> FALSE]

IsListing(rq) == rq.method = "GET" /\ rq.path = "/dnszone"
Listed(l) == \E i \in DOMAIN l.requests : IsListing(l.requests[i])

\* A method's outcome: the record of the call, the cache and the provider after it.
Outcome(l, z, rem) == [call |-> l, zones |-> z, remote |-> rem]

ClearZonesCache(z, rem) ==
    Outcome([Blank EXCEPT !.op = "clear_zones_cache", !.before = z], ClearedZones(z), rem)

Zones(z, rem, per_page, ans) ==
    LET c == CacheIfEmpty(z, rem, per_page, ans)
    IN  Outcome([Blank EXCEPT !.op = "zones", !.before = z,
                              !.requests = c.requests, !.raised = c.raised,
                              !.ret = IF c.raised = "none" THEN DOMAIN c.zones ELSE {}],
                c.zones, rem)

Zone(z, rem, zone_name, per_page, ans) ==
    LET g == GetZoneId(z, zone_name, rem, per_page, ans)
        l == [Blank EXCEPT !.op = "zone", !.before = z, !.zone_name = zone_name,
                           !.zone_id = g.zone_id]
        st == StatusAt(ans, Len(g.requests) + 1)
        rq == Req("GET", "/dnszone/{zone_id}", 0, g.zone_id.n, NoId, EmptyDict, st)
    IN  IF g.raised # "none"
        THEN Outcome([l EXCEPT !.requests = g.requests, !.raised = g.raised], g.zones, rem)
        ELSE Outcome([l EXCEPT !.requests = Append(g.requests, rq),
                               !.raised = RequestRaises(st)], g.zones, rem)

\* id is the Id of the zone in the provider's answer to a successful creation
ZoneCreate(z, rem, zone_name, ans, id) ==
    LET st == StatusAt(ans, 1)
        rq == Req("POST", "/dnszone", 0, NoId, NoId, [k \in {"Domain"} |-> PyStr(zone_name)], st)
        l == [Blank EXCEPT !.op = "zone_create", !.before = z, !.zone_name = zone_name,
                           !.requests = <<rq>>]
    IN  IF RequestRaises(st) # "none"
        THEN Outcome([l EXCEPT !.raised = RequestRaises(st)], z, rem)
        ELSE Outcome([l EXCEPT !.zone_id = PyInt(id)],
                     UpdateZonesCache(z, zone_name, id),
                     Append(rem, [Domain |-> zone_name, Id |-> id]))

\* As RecordCreate, but the payload is validated before the zone is looked up.
RecordCreateValidateFirst(z, rem, zone_name, record_data, per_page, ans) ==
    LET h == HandleRecordData(record_data, FALSE)
        g == GetZoneId(z, zone_name, rem, per_page, ans)
        l == [Blank EXCEPT !.op = "record_create", !.before = z, !.zone_name = zone_name,
                           !.record_data = record_data, !.obj = h.data]
        st == StatusAt(ans, Len(g.requests) + 1)
        rq == Req("PUT", "/dnszone/{zone_id}/records", 0, g.zone_id.n, NoId, h.data, st)
    IN  IF h.raised # "none"
        THEN Outcome([l EXCEPT !.raised = h.raised], z, rem)
        ELSE IF g.raised # "none"
        THEN Outcome([l EXCEPT !.requests = g.requests, !.raised = g.raised,
                               !.zone_id = g.zone_id], g.zones, rem)
        ELSE Outcome([l EXCEPT !.requests = Append(g.requests, rq), !.zone_id = g.zone_id,
                               !.raised = RequestRaises(st)], g.zones, rem)

RecordCreate(z, rem, zone_name, record_data, per_page, ans) ==
    LET g == GetZoneId(z, zone_name, rem, per_page, ans)
        h == HandleRecordData(record_data, FALSE)
        l == [Blank EXCEPT !.op = "record_create", !.before = z, !.zone_name = zone_name,
                           !.record_data = record_data, !.zone_id = g.zone_id]
        st == StatusAt(ans, Len(g.requests) + 1)
        rq == Req("PUT", "/dnszone/{zone_id}/records", 0, g.zone_id.n, NoId, h.data, st)
    IN  IF g.raised # "none"
        THEN Outcome([l EXCEPT !.requests = g.requests, !.raised = g.raised,
                               !.obj = record_data], g.zones, rem)
        ELSE IF h.raised # "none"
        THEN Outcome([l EXCEPT !.requests = g.requests, !.raised = h.raised,
                               !.obj = h.data], g.zones, rem)
        ELSE Outcome([l EXCEPT !.requests = Append(g.requests, rq), !.obj = h.data,
                               !.raised = RequestRaises(st)], g.zones, rem)

RecordUpdate(z, rem, zone_name, record_id, record_data, per_page, ans) ==
    LET g == GetZoneId(z, zone_name, rem, per_page, ans)
        h == HandleRecordData(record_data, TRUE)
        l == [Blank EXCEPT !.op = "record_update", !.before = z, !.zone_name = zone_name,
                           !.record_id = record_id, !.record_data = record_data,
                           !.zone_id = g.zone_id]
        st == StatusAt(ans, Len(g.requests) + 1)
        rq == Req("POST", "/dnszone/{zone_id}/records/{record_id}", 0, g.zone_id.n,
                  record_id, h.data, st)
    IN  IF g.raised # "none"
        THEN Outcome([l EXCEPT !.requests = g.requests, !.raised = g.raised,
                               !.obj = record_data], g.zones, rem)
        ELSE IF h.raised # "none"
        THEN Outcome([l EXCEPT !.requests = g.requests, !.raised = h.raised,
                               !.obj = h.data], g.zones, rem)
        ELSE Outcome([l EXCEPT !.requests = Append(g.requests, rq), !.obj = h.data,
                               !.raised = RequestRaises(st)], g.zones, rem)

\* As RecordDelete, but a DELETE answered with an error is sent a second time.
RecordDeleteRetry(z, rem, zone_name, record_id, per_page, ans) ==
    LET g == GetZoneId(z, zone_name, rem, per_page, ans)
        l == [Blank EXCEPT !.op = "record_delete", !.before = z, !.zone_name = zone_name,
                           !.record_id = record_id, !.zone_id = g.zone_id]
        n == Len(g.requests) + 1
        rq(k) == Req("DELETE", "/dnszone/{zone_id}/records/{record_id}", 0, g.zone_id.n,
                     record_id, EmptyDict, StatusAt(ans, k))
    IN  IF g.raised # "none"
        THEN Outcome([l EXCEPT !.requests = g.requests, !.raised = g.raised], g.zones, rem)
        ELSE IF RequestRaises(StatusAt(ans, n)) = "none"
        THEN Outcome([l EXCEPT !.requests = Append(g.requests, rq(n))], g.zones, rem)
        ELSE Outcome([l EXCEPT !.requests = g.requests \o <<rq(n), rq(n + 1)>>,
                               !.raised = RequestRaises(StatusAt(ans, n + 1))], g.zones, rem)

RecordDelete(z, rem, zone_name, record_id, per_page, ans) ==
    LET g == GetZoneId(z, zone_name, rem, per_page, ans)
        l == [Blank EXCEPT !.op = "record_delete", !.before = z, !.zone_name = zone_name,
                           !.record_id = record_id, !.zone_id = g.zone_id]
        st == StatusAt(ans, Len(g.requests) + 1)
        rq == Req("DELETE", "/dnszone/{zone_id}/records/{record_id}", 0, g.zone_id.n,
                  record_id, EmptyDict, st)
    IN  IF g.raised # "none"
        THEN Outcome([l EXCEPT !.requests = g.requests, !.raised = g.raised], g.zones, rem)
        ELSE Outcome([l EXCEPT !.requests = Append(g.requests, rq),
                               !.raised = RequestRaises(st)], g.zones, rem)

\* ----------------------------------------------------------------- calls
\* What a following call's contract depends on: the method, the zone, whether it
\* returned, and what it returned.
Summary(l) == [op |-> l.op, zone_name |-> l.zone_name, ok |-> l.raised = "none", ret |-> l.ret]

\* What a specification explores: the statuses the provider answers with, the
\* payloads the caller passes, and whether the call before is kept in prev.
All == [statuses |-> Statuses, payloads |-> PlainPayloads, history |-> FALSE]
Ok == [statuses |-> {200}, payloads |-> PlainPayloads, history |-> TRUE]
Recs == [statuses |-> {200}, payloads |-> Payloads, history |-> FALSE]
Retry == [statuses |-> {200, 500}, payloads |-> SupportedPayloads, history |-> TRUE]

\* The call is over: the cache, the provider and the record of the call.
Finish(e, o, per_page) ==
    /\ _zones' = o.zones
    /\ remote' = o.remote
    /\ last' = [o.call EXCEPT !.per_page = IF Listed(o.call) THEN per_page ELSE 0]
    /\ prev' = IF e.history THEN Summary(last) ELSE prev

Init ==
    /\ _zones = EmptyDict
    /\ remote \in InitialRemotes
    /\ last = Blank
    /\ prev = Summary(Blank)

clear_zones_cache(e) ==
    \E o \in {ClearZonesCache(_zones, remote)} : Finish(e, o, 0)

zones(e) ==
    \E per_page \in PerPages : \E ans \in CallAnswers(e.statuses, per_page, 0) :
        \E o \in {Zones(_zones, remote, per_page, ans)} : Finish(e, o, per_page)

zone(e) ==
    \E zone_name \in Names, per_page \in PerPages :
      \E ans \in CallAnswers(e.statuses, per_page, 1) :
        \E o \in {Zone(_zones, remote, zone_name, per_page, ans)} : Finish(e, o, per_page)

zone_create(e) ==
    \E zone_name \in Names, ans \in Answers(e.statuses, 1), id \in Ids :
        \* the provider creates a zone only under a new name, with an unused Id
        /\ IF ans = AllOk THEN zone_name \notin RemoteNames /\ id \notin RemoteIds
                          ELSE id = 0
        /\ \E o \in {ZoneCreate(_zones, remote, zone_name, ans, id)} : Finish(e, o, 0)

record_create(e) ==
    \E zone_name \in Names, record_data \in e.payloads, per_page \in PerPages :
      \E ans \in CallAnswers(e.statuses, per_page, 1) :
        \E o \in {RecordCreate(_zones, remote, zone_name, record_data, per_page, ans)} :
            Finish(e, o, per_page)

record_update(e) ==
    \E zone_name \in Names, record_id \in RecordIds, record_data \in e.payloads,
       per_page \in PerPages :
      \E ans \in CallAnswers(e.statuses, per_page, 1) :
        \E o \in {RecordUpdate(_zones, remote, zone_name, record_id, record_data,
                               per_page, ans)} :
            Finish(e, o, per_page)

record_delete(e) ==
    \E zone_name \in Names, record_id \in RecordIds, per_page \in PerPages :
      \E ans \in CallAnswers(e.statuses, per_page, 1) :
        \E o \in {RecordDelete(_zones, remote, zone_name, record_id, per_page, ans)} :
            Finish(e, o, per_page)

\* The caller calls record_create once more with the dict it passed to the
\* record_create before (the object _handle_record_data changed in place) and
\* the same zone name; that call is kept whole in prev.
record_create_again(e) ==
    /\ last.op = "record_create"
    /\ \E per_page \in PerPages :
         \E ans \in CallAnswers(e.statuses, per_page, 1) :
           \E o \in {RecordCreate(_zones, remote, last.zone_name, last.obj, per_page, ans)} :
               /\ _zones' = o.zones
               /\ remote' = o.remote
               /\ last' = [o.call EXCEPT !.per_page = IF Listed(o.call) THEN per_page ELSE 0,
                                         !.again = TRUE]
               /\ prev' = last

Calls(e) ==
    \/ clear_zones_cache(e)
    \/ zones(e)
    \/ zone(e)
    \/ zone_create(e)
    \/ record_create(e)
    \/ record_update(e)
    \/ record_delete(e)

\* Every method under every status.
Next == Calls(All)
Spec == Init /\ [][Next]_vars

\* Sequences of calls whose requests are all answered 200; the call before is kept.
NextOk == Calls(Ok)
SpecOk == Init /\ [][NextOk]_vars

\* Every payload, every request answered 200.
NextRecords == Calls(Recs)
SpecRecords == Init /\ [][NextRecords]_vars

\* Payloads of every supported type, requests answered 200 or 500, and the caller
\* may repeat a record_create with the same dict.
NextRetry == Calls(Retry) \/ record_create_again(Retry)
SpecRetry == Init /\ [][NextRetry]_vars

TypeOK ==
    /\ DOMAIN _zones \subseteq Names
    /\ \A n \in DOMAIN _zones : _zones[n] \in Ids
    /\ Len(remote) <= MaxZones

\* ================================================================ claims
LookupOps == {"zone", "record_create", "record_update", "record_delete"}
ListingRequests(l) == SelectSeq(l.requests, IsListing)
OtherRequests(l) == SelectSeq(l.requests, LAMBDA rq : ~IsListing(rq))
AllAnswered200(l) == \A i \in DOMAIN l.requests : l.requests[i].status = 200

\* C1 (as claimed; every request answered 200): the cache is empty or holds every
\* zone the provider has, so a miss on a non-empty cache means the zone does not
\* exist; also right after zone_create on a cache that was never populated.
C1_CacheEmptyOrComplete ==
    _zones = EmptyDict \/ RemoteNames \subseteq DOMAIN _zones

\* C2: zone() and the record methods, called with a name that is not in the cache
\* after the load, send listing requests only, send nothing at all when the cache
\* was not empty, and raise Not-Found unless a listing request itself failed.
C2_UnresolvedNameNotFound ==
    (last.op \in LookupOps /\ last.zone_name \notin DOMAIN _zones) =>
        /\ OtherRequests(last) = <<>>
        /\ last.before # EmptyDict => last.requests = <<>>
        /\ AllAnswered200(last) => last.raised = "BunnyClientNotFound"

C2_Witness ==
    /\ last.op = "record_update"
    /\ last.zone_name \notin DOMAIN _zones
    /\ last.before = EmptyDict /\ _zones # EmptyDict
    /\ Len(last.requests) = 1
    /\ last.raised = "BunnyClientNotFound"

\* C3 (as claimed): a zones() that follows a zones() that returned sends no
\* request and returns the same names, whatever zones the provider has.
C3_SecondZonesUsesCache ==
    (prev.op = "zones" /\ prev.ok /\ last.op = "zones") =>
        /\ last.requests = <<>>
        /\ last.raised = "none"
        /\ last.ret = prev.ret

\* C4 (as claimed): record_create with no Type, a None Type or a type string
\* outside the enumeration raises the validation error and sends no request,
\* from every state of the cache.
C4_BadTypes == {PyNone} \cup {PyStr(t) : t \in TypeStrings \ DOMAIN RECORD_TYPES}
C4_BadTypeRejectedWithoutRequest ==
    (last.op = "record_create" /\ DictGet(last.record_data, "Type") \in C4_BadTypes) =>
        /\ last.raised = "BunnyClientException"
        /\ last.requests = <<>>

\* C5 (as claimed): record_update with a payload that has a Name key or a Type
\* key, whatever its value, raises the validation error and sends no request,
\* from every state of the cache.
C5_NameOrTypeRejectedWithoutRequest ==
    (last.op = "record_update" /\ {"Name", "Type"} \cap DOMAIN last.record_data # {}) =>
        /\ last.raised = "BunnyClientException"
        /\ last.requests = <<>>

\* C6 (as claimed): in every method, a 401 answer raises Unauthorized, a 404
\* answer raises Not-Found and any other answer that is not a 2xx raises the
\* generic BunnyClientException.
C6_StatusToErrorKind ==
    \A i \in DOMAIN last.requests :
        LET status == last.requests[i].status
        IN  /\ status = 401 => last.raised = "BunnyClientUnauthorized"
            /\ status = 404 => last.raised = "BunnyClientNotFound"
            /\ (status \notin {401, 404} /\ ~(status >= 200 /\ status < 300))
                   => last.raised = "BunnyClientException"

\* C7: a population pass over a listing of k pages, every page answered 200,
\* sends exactly k listing requests, for pages 1, 2, ..., k in this order, and
\* leaves in the cache the domains of the items of all k pages.
C7_PagesOf(l) ==
    CHOOSE k \in 1..(Len(remote) + 1) :
        /\ ~ListResponse(remote, l.per_page, k).HasMoreItems
        /\ \A p \in 1..(k - 1) : ListResponse(remote, l.per_page, p).HasMoreItems
C7_ItemsOf(l, k) ==
    UNION {{ListResponse(remote, l.per_page, p).Items[i].Domain :
                i \in DOMAIN ListResponse(remote, l.per_page, p).Items} : p \in 1..k}
C7_PassCompleted(l) ==
    Listed(l) /\ \A i \in DOMAIN l.requests : IsListing(l.requests[i]) => l.requests[i].status = 200
C7_PaginationComplete ==
    C7_PassCompleted(last) =>
        LET k == C7_PagesOf(last)
            reqs == ListingRequests(last)
        IN  /\ Len(reqs) = k
            /\ \A p \in 1..k : reqs[p].page = p
            /\ \A p \in 1..k : last.requests[p] = reqs[p]
            /\ DOMAIN _zones = C7_ItemsOf(last, k)

C7_Witness ==
    /\ last.op = "zones" /\ last.raised = "none"
    /\ C7_PagesOf(last) = 2
    /\ Len(ListingRequests(last)) = 2
    /\ Cardinality(DOMAIN _zones) = 2

\* C8 (as claimed): after a zone_create(name) that returned, a zone(name) sends
\* exactly one request, the GET of the zone detail under the id the creation
\* returned.
C8_ZoneAfterCreateUsesCache ==
    (prev.op = "zone_create" /\ prev.ok /\ last.op = "zone"
        /\ last.zone_name = prev.zone_name) =>
        /\ Len(last.requests) = 1
        /\ last.requests[1].method = "GET"
        /\ last.requests[1].path = "/dnszone/{zone_id}"
        /\ last.requests[1].zone_id = _zones[last.zone_name]

\* C9: clear_zones_cache leaves the cache empty whatever it held, and a zones()
\* that follows it first sends the listing request for page 1.
C9_ClearThenZonesLists ==
    /\ last.op = "clear_zones_cache" => _zones = EmptyDict
    /\ (prev.op = "clear_zones_cache" /\ last.op = "zones") =>
           /\ Len(last.requests) >= 1
           /\ IsListing(last.requests[1])
           /\ last.requests[1].page = 1

C9_Witness ==
    /\ prev.op = "clear_zones_cache" /\ last.op = "zones"
    /\ last.raised = "none"
    /\ Len(last.requests) = 2
    /\ _zones # EmptyDict

\* C10: record_create with a type of the enumeration never raises the validation
\* error; when the zone lookup gave an id it sends one PUT, and the Type of every
\* PUT it sends is the integer code of the type (0 for "A").
C10_Codes ==
    [t \in {"A", "AAAA", "CNAME", "TXT", "MX", "SRV", "CAA", "PTR", "NS"} |->
        CASE t = "A" -> 0 [] t = "AAAA" -> 1 [] t = "CNAME" -> 2 [] t = "TXT" -> 3
          [] t = "MX" -> 4 [] t = "SRV" -> 8 [] t = "CAA" -> 9 [] t = "PTR" -> 10
          [] t = "NS" -> 12]
C10_TypeCodeSent ==
    \A t \in DOMAIN C10_Codes :
        (last.op = "record_create" /\ DictGet(last.record_data, "Type") = PyStr(t)) =>
            /\ last.raised # "BunnyClientException"
            /\ \A i \in DOMAIN last.requests :
                   last.requests[i].method = "PUT" =>
                       /\ "Type" \in DOMAIN last.requests[i].data
                       /\ last.requests[i].data["Type"] = PyInt(C10_Codes[t])
            /\ Truthy(last.zone_id) =>
                   /\ Len(OtherRequests(last)) = 1
                   /\ OtherRequests(last)[1].method = "PUT"

C10_Witness ==
    /\ last.op = "record_create"
    /\ DictGet(last.record_data, "Type") = PyStr("A")
    /\ Len(OtherRequests(last)) = 1
    /\ OtherRequests(last)[1].method = "PUT"
    /\ OtherRequests(last)[1].data["Type"] = PyInt(0)
    /\ last.raised = "none"

\* C11: whatever payload record_update is called with, the body of every POST to
\* /dnszone/{id}/records/{record_id} it sends has neither a Name nor a Type key.
C11_IsUpdateRequest(rq) ==
    rq.method = "POST" /\ rq.path = "/dnszone/{zone_id}/records/{record_id}"
C11_UpdateBodyLacksNameAndType ==
    \A i \in DOMAIN last.requests :
        C11_IsUpdateRequest(last.requests[i]) =>
            {"Name", "Type"} \cap DOMAIN last.requests[i].data = {}

C11_Witness ==
    /\ last.op = "record_update"
    /\ {"Name", "Type"} \subseteq DOMAIN last.record_data
    /\ Len(OtherRequests(last)) = 1
    /\ C11_IsUpdateRequest(OtherRequests(last)[1])
    /\ DOMAIN OtherRequests(last)[1].data = {"Value"}

\* C12: within one call, a response with an error status is the last exchange of
\* the call; the call sends at most one request that is not a listing request;
\* no page number is requested twice.
C12_NeverRetries ==
    /\ \A i \in DOMAIN last.requests :
           last.requests[i].status >= 400 => i = Len(last.requests)
    /\ Len(OtherRequests(last)) <= 1
    /\ \A i, j \in DOMAIN ListingRequests(last) :
           i # j => ListingRequests(last)[i].page # ListingRequests(last)[j].page

C12_Witness ==
    /\ last.op = "zone"
    /\ Len(last.requests) = 2
    /\ IsListing(last.requests[1]) /\ last.requests[1].status = 200
    /\ IsListing(last.requests[2]) /\ last.requests[2].status = 401
    /\ last.raised = "BunnyClientUnauthorized"

\* C13: zone_create(name) sends exactly one request, POST /dnszone, and no listing
\* request; when it returns, the cache is the cache before the call with the one
\* entry name -> returned Id set, and when it raises, the cache is as before the call.
C13_ZoneCreateStep ==
    last'.op = "zone_create" =>
        /\ Len(last'.requests) = 1
        /\ last'.requests[1].method = "POST" /\ last'.requests[1].path = "/dnszone"
        /\ ~Listed(last')
        /\ last'.raised = "none" =>
               /\ DOMAIN _zones' = DOMAIN _zones \cup {last'.zone_name}
               /\ _zones'[last'.zone_name] = last'.zone_id.n
               /\ \A n \in DOMAIN _zones \ {last'.zone_name} : _zones'[n] = _zones[n]
        /\ last'.raised # "none" => _zones' = _zones
C13_ZoneCreateFrame == [][C13_ZoneCreateStep]_vars

C13_Witness ==
    /\ last.op = "zone_create" /\ last.raised = "none"
    /\ last.before # EmptyDict
    /\ last.zone_name \notin DOMAIN last.before
    /\ DOMAIN _zones = DOMAIN last.before \cup {last.zone_name}
    /\ Len(last.requests) = 1

\* C14: a population pass over a listing of finitely many pages ends: it sends at
\* most as many listing requests as the listing has pages, every listing request
\* but the last of the pass was answered 200 with HasMoreItems true, and the last
\* one was answered with an error or with HasMoreItems not true; the requests of
\* the pass are the first requests of the call.
C14_PassStops ==
    Listed(last) =>
        LET reqs == ListingRequests(last)
            more(i) == ListResponse(remote, last.per_page, reqs[i].page).HasMoreItems
        IN  /\ Len(reqs) <= C7_PagesOf(last)
            /\ \A i \in 1..(Len(reqs) - 1) : reqs[i].status = 200 /\ more(i) = TRUE
            /\ reqs[Len(reqs)].status >= 400 \/ ~(more(Len(reqs)) = TRUE)
            /\ \A i \in DOMAIN reqs : last.requests[i] = reqs[i]

C14_Witness ==
    /\ last.op = "zone" /\ last.raised = "none"
    /\ Len(ListingRequests(last)) = 2
    /\ ListResponse(remote, last.per_page, 1).HasMoreItems
    /\ ~ListResponse(remote, last.per_page, 2).HasMoreItems
    /\ Len(last.requests) = 3

\* C15: record_create and record_update look the zone up before they validate the
\* payload.  With every request answered 200: a name that does not resolve and a
\* payload that is invalid raise Not-Found; a name that resolves and a payload
\* that is invalid raise the validation error and send nothing to the records
\* endpoint; a request to the records endpoint is sent only when the name
\* resolved and the payload is valid.  (A name resolves when the cache holds it
\* under an id that _get_zone_id accepts.)
C15_Resolves(l) ==
    l.zone_name \in DOMAIN _zones /\ Truthy(PyInt(_zones[l.zone_name]))
C15_Invalid(l) ==
    HandleRecordData(l.record_data, l.op = "record_update").raised # "none"
C15_LookupBeforeValidation ==
    last.op \in {"record_create", "record_update"} =>
        /\ (~C15_Resolves(last) /\ C15_Invalid(last)) =>
               last.raised = "BunnyClientNotFound" /\ OtherRequests(last) = <<>>
        /\ (C15_Resolves(last) /\ C15_Invalid(last)) =>
               last.raised = "BunnyClientException" /\ OtherRequests(last) = <<>>
        /\ OtherRequests(last) # <<>> => C15_Resolves(last) /\ ~C15_Invalid(last)

C15_Witness ==
    /\ last.op = "record_create"
    /\ DictGet(last.record_data, "Type") = PyStr("BOGUS")
    /\ _zones # EmptyDict /\ last.zone_name \notin DOMAIN _zones
    /\ last.raised = "BunnyClientNotFound"

\* C16 (as claimed): after a call whose population pass failed on some page, the
\* cache holds no entry of that pass: it is empty, so that the next lookup or
\* zones() lists again.
C16_FailedPassLeavesNoEntries ==
    (Listed(last) /\ ~C7_PassCompleted(last)) => _zones = EmptyDict

\* C17 (as claimed): when a record_create passed validation and its PUT was
\* answered with an error, the record_create the caller repeats with the same
\* dict is accepted by validation and sends a PUT whose body equals the body of
\* the first PUT.
C17_FirstFailedAfterValidation ==
    /\ last.again
    /\ OtherRequests(prev) # <<>>
    /\ prev.raised # "none"
C17_RepeatSendsSameBody ==
    C17_FirstFailedAfterValidation =>
        /\ last.raised # "BunnyClientException"
        /\ Len(OtherRequests(last)) = 1
        /\ OtherRequests(last)[1].data = OtherRequests(prev)[1].data

\* C18: a step of any method other than clear_zones_cache keeps every cached
\* name, and a step of zones(), zone(), record_create, record_update or
\* record_delete taken on a non-empty cache leaves the cache as it was, whether
\* the call returns or raises.
C18_ReadingOps == {"zones"} \cup LookupOps
C18_Step ==
    last'.op # "clear_zones_cache" =>
        /\ DOMAIN _zones \subseteq DOMAIN _zones'
        /\ (_zones # EmptyDict /\ last'.op \in C18_ReadingOps) => _zones' = _zones
C18_OnlyClearRemoves == [][C18_Step]_vars

C18_Witness ==
    /\ last.op = "record_delete"
    /\ last.before # EmptyDict
    /\ last.raised = "HTTPError"
    /\ _zones = last.before

\* C19 (as claimed): zone() and the record methods, called with a name the cache
\* holds under any Id (0 included), do not raise Not-Found unless a request was
\* answered 404, and zone() and record_delete go on to their one request.
C19_ListingAnswered200(l) ==
    \A i \in DOMAIN l.requests : IsListing(l.requests[i]) => l.requests[i].status = 200
C19_CachedNameResolves ==
    (last.op \in LookupOps /\ last.zone_name \in DOMAIN _zones
        /\ C19_ListingAnswered200(last)) =>
        /\ (\A i \in DOMAIN last.requests : last.requests[i].status # 404)
               => last.raised # "BunnyClientNotFound"
        /\ last.op \in {"zone", "record_delete"} => Len(OtherRequests(last)) = 1

====
